---- MODULE Spec2Model ----
(***************************************************************************)
(* Sanchay group-buying marketplace: bulk-tier price resolution            *)
(* (supabase/functions/pricing-calculator and JoinOrderModal), group-order *)
(* participation and the supplier-driven order status workflow.            *)
(*                                                                         *)
(* Money is counted in whole currency units; a percentage with one         *)
(* fractional digit is counted in tenths of a percent.  An optional value  *)
(* (a JavaScript value that may be undefined or null) is a sequence of     *)
(* length 0 or 1.                                                          *)
(***************************************************************************)
EXTENDS Integers, Sequences, FiniteSets, TLC

VARIABLES
    inventory,           \* table inventory joined with bulk_tiers: item id -> row
    calls,               \* the two most recent price resolutions, newest first
    orders,              \* table orders: order id -> row
    order_participants,  \* table order_participants, in insertion order
    vendorOrders,        \* vendor: the orders listed on the "available" tab
    showJoinModal,       \* vendor: the order of the open JoinOrderModal, if any
    cart,                \* vendor: the cart of the open JoinOrderModal
    joinRequest,         \* vendor: the participation insert in flight, if any
    joinToast,           \* vendor: what the last handleSubmit reported
    supplierOrders,      \* supplier session: order id -> status as listed
    raced,               \* orders on which a join was submitted while another was in flight
    payment_receipts,    \* table payment_receipts, in insertion order
    vendorHistory,       \* vendor: order id -> status as listed on the "history" tab
    showReceiptModal,    \* vendor: the order of the open PaymentReceiptModal, if any
    receipt,             \* vendor: the receipt held by the open PaymentReceiptModal, if any
    stats,               \* vendor: the figures of the profile page, once fetched
    realtime,            \* the useOrderRealtime view of order 1 and its channel
    inventoryModal       \* supplier: the open Add/EditInventoryModal and its form

pricingVars == <<inventory, calls>>

storeVars == <<orders, order_participants>>

vendorVars == <<vendorOrders, showJoinModal, cart, joinRequest, joinToast>>

receiptVars == <<payment_receipts, vendorHistory, showReceiptModal, receipt>>

marketVars == <<storeVars, vendorVars, supplierOrders, raced, receiptVars, stats, realtime,
                inventoryModal>>

vars == <<pricingVars, marketVars>>

(***************************************************************************)
(* Bounds of the model.                                                    *)
(***************************************************************************)
MaxTiers == 2
MaxPrice == 2
MaxQty == 2
MaxOrders == 1
MaxParticipants == 2
MaxCartQty == 1
MaxLineQty == 2
MaxJoins == 1
MaxReceipts == 1

None == <<>>
Some(x) == <<x>>

ItemIds == {"i1", "i2"}

Tiers == [min_quantity : 1..MaxQty, price_per_unit : 1..MaxPrice]

RECURSIVE SeqsUpTo(_, _)
SeqsUpTo(S, n) ==
    IF n = 0 THEN {<<>>}
    ELSE LET shorter == SeqsUpTo(S, n - 1)
         IN  shorter \cup {Append(s, x) : s \in {t \in shorter : Len(t) = n - 1}, x \in S}

TierLists == SeqsUpTo(Tiers, MaxTiers)

Abs(n) == IF n < 0 THEN -n ELSE n

\* s[0] of a JavaScript array: undefined when the array is empty.
First(s) == IF s = <<>> THEN None ELSE Some(s[1])

\* The n first elements of s, or all of s when it is shorter.
Take(s, n) == [i \in 1..(IF Len(s) < n THEN Len(s) ELSE n) |-> s[i]]

(***************************************************************************)
(* pricing-calculator edge function.                                       *)
(***************************************************************************)
tierQualifiesReversed(tier, total_quantity) == total_quantity <= tier.min_quantity

tierQualifiesAlways(tier, total_quantity) == TRUE

\* .filter(tier => total_quantity >= tier.min_quantity)
tierQualifies(tier, total_quantity) == total_quantity >= tier.min_quantity

tierOrderAscending(a, b) == a.min_quantity - b.min_quantity

\* .sort((a, b) => b.min_quantity - a.min_quantity)
tierOrder(a, b) == b.min_quantity - a.min_quantity

(***************************************************************************)
(* Array.prototype.sort with the comparator tierOrder: a stable sort; a    *)
(* stays before b when tierOrder(a, b) is not positive.                    *)
(***************************************************************************)
SortInsert(t, s) ==
    LET k == CHOOSE i \in 0..Len(s) :
                 /\ \A j \in 1..i : tierOrder(s[j], t) <= 0
                 /\ i < Len(s) => tierOrder(s[i + 1], t) > 0
    IN  SubSeq(s, 1, k) \o <<t>> \o SubSeq(s, k + 1, Len(s))

Sort(s) ==
    LET sorted[n \in 0..Len(s)] ==
            IF n = 0 THEN <<>> ELSE SortInsert(s[n], sorted[n - 1])
    IN  sorted[Len(s)]

sortedTiers(bulk_tiers, total_quantity) ==
    Sort(SelectSeq(bulk_tiers, LAMBDA tier : tierQualifies(tier, total_quantity)))

bestPriceClamped(item, total_quantity) ==
    IF /\ Len(item.bulk_tiers) > 0
       /\ Len(sortedTiers(item.bulk_tiers, total_quantity)) > 0
       /\ sortedTiers(item.bulk_tiers, total_quantity)[1].price_per_unit < item.base_price
    THEN sortedTiers(item.bulk_tiers, total_quantity)[1].price_per_unit
    ELSE item.base_price

bestPrice(item, total_quantity) ==
    IF Len(item.bulk_tiers) > 0 /\ Len(sortedTiers(item.bulk_tiers, total_quantity)) > 0
    THEN sortedTiers(item.bulk_tiers, total_quantity)[1].price_per_unit
    ELSE item.base_price

originalTotal(item, total_quantity) == item.base_price * total_quantity

discountedTotalUnit(item, total_quantity) == bestPrice(item, total_quantity)

discountedTotal(item, total_quantity) == bestPrice(item, total_quantity) * total_quantity

savingsReversed(item, total_quantity) ==
    discountedTotal(item, total_quantity) - originalTotal(item, total_quantity)

savings(item, total_quantity) ==
    originalTotal(item, total_quantity) - discountedTotal(item, total_quantity)

(***************************************************************************)
(* parseFloat(((num / den) * 100).toFixed(1)) as JSON.stringify writes it: *)
(* a division by zero gives NaN or an infinity, which JSON writes as null; *)
(* otherwise the quotient rounded to one fractional digit, half away from  *)
(* zero, in tenths of a percent.                                           *)
(***************************************************************************)
savingsPercentage(num, den) ==
    IF den = 0 THEN None
    ELSE LET sign == IF (num < 0) = (den < 0) THEN 1 ELSE -1
             tenths == (2 * Abs(num) * 1000 + Abs(den)) \div (2 * Abs(den))
         IN  Some(sign * tenths)

\* bulk_tiers?.find(...): the first tier satisfying the test, if any.
applicable_tier(item, total_quantity) ==
    First(SelectSeq(item.bulk_tiers,
                    LAMBDA tier : total_quantity >= tier.min_quantity
                                  /\ tier.price_per_unit = bestPrice(item, total_quantity)))

\* The body of the 200 response.
PricingResponse(inventory_id, item, total_quantity) ==
    [status |-> 200,
     inventory_id |-> inventory_id,
     total_quantity |-> total_quantity,
     base_price |-> item.base_price,
     discounted_price |-> bestPrice(item, total_quantity),
     total_amount |-> discountedTotal(item, total_quantity),
     savings_amount |-> savings(item, total_quantity),
     savings_percentage |-> savingsPercentage(savings(item, total_quantity),
                                              originalTotal(item, total_quantity)),
     applicable_tier |-> applicable_tier(item, total_quantity)]

NoItemResponse ==
    [status |-> 200, discounted_price |-> 0, total_amount |-> 0, savings_amount |-> 0]

\* .single() on no row: the query error is thrown and caught.
ErrorResponse == [status |-> 400, error |-> "no rows returned"]

Record(call) == calls' = Take(<<call>> \o calls, 2)

PricingRequestStoring(inventory_id, total_quantity) ==
    /\ inventory_id \in DOMAIN inventory
    /\ Record([site |-> "pricing-calculator",
               inventory_id |-> inventory_id,
               quantity |-> total_quantity,
               selected |-> First(sortedTiers(inventory[inventory_id].bulk_tiers,
                                              total_quantity)),
               result |-> PricingResponse(inventory_id, inventory[inventory_id],
                                          total_quantity)])
    /\ inventory' = [inventory EXCEPT ![inventory_id].base_price =
                         bestPrice(inventory[inventory_id], total_quantity)]
    /\ UNCHANGED marketVars

PricingRequest(inventory_id, total_quantity) ==
    /\ IF inventory_id \in DOMAIN inventory
       THEN Record([site |-> "pricing-calculator",
                    inventory_id |-> inventory_id,
                    quantity |-> total_quantity,
                    selected |-> First(sortedTiers(inventory[inventory_id].bulk_tiers,
                                                   total_quantity)),
                    result |-> PricingResponse(inventory_id, inventory[inventory_id],
                                               total_quantity)])
       ELSE Record([site |-> "pricing-calculator",
                    inventory_id |-> inventory_id,
                    quantity |-> total_quantity,
                    selected |-> None,
                    result |-> ErrorResponse])
    /\ UNCHANGED <<inventory, marketVars>>

(***************************************************************************)
(* JoinOrderModal: price of one cart line.                                 *)
(***************************************************************************)
CartItem(inventory_id, item, quantity) ==
    [inventory_id |-> inventory_id,
     base_price |-> item.base_price,
     quantity |-> quantity,
     bulk_tiers |-> item.bulk_tiers]

cartTierOrderAscending(a, b) == a.min_quantity - b.min_quantity

cartTierOrder(a, b) == b.min_quantity - a.min_quantity

\* The same stable sort, with the comparator of calculateItemPrice.
CartSortInsert(t, s) ==
    LET k == CHOOSE i \in 0..Len(s) :
                 /\ \A j \in 1..i : cartTierOrder(s[j], t) <= 0
                 /\ i < Len(s) => cartTierOrder(s[i + 1], t) > 0
    IN  SubSeq(s, 1, k) \o <<t>> \o SubSeq(s, k + 1, Len(s))

CartSort(s) ==
    LET sorted[n \in 0..Len(s)] ==
            IF n = 0 THEN <<>> ELSE CartSortInsert(s[n], sorted[n - 1])
    IN  sorted[Len(s)]

applicableTier(item) ==
    First(CartSort(SelectSeq(item.bulk_tiers,
                             LAMBDA tier : item.quantity >= tier.min_quantity)))

calculateItemPrice(item) ==
    LET price == IF Len(item.bulk_tiers) > 0 /\ applicableTier(item) # None
                 THEN applicableTier(item)[1].price_per_unit
                 ELSE item.base_price
    IN  price * item.quantity

\* The cart panel renders calculateItemPrice(item) for a line of the cart.
RenderCartLine(inventory_id, quantity) ==
    /\ inventory_id \in DOMAIN inventory
    /\ Record([site |-> "calculateItemPrice",
               inventory_id |-> inventory_id,
               quantity |-> quantity,
               selected |-> applicableTier(CartItem(inventory_id, inventory[inventory_id],
                                                    quantity)),
               result |-> calculateItemPrice(CartItem(inventory_id,
                                                      inventory[inventory_id], quantity))])
    /\ UNCHANGED <<inventory, marketVars>>

(***************************************************************************)
(* The store and the clients before anything happened.                     *)
(***************************************************************************)
Vendors == {"v1", "v2"}

Sessions == {"s1", "s2"}

OrderIds == 1..MaxOrders

Statuses == {"pending", "confirmed", "preparing", "ready", "delivered", "cancelled"}

ProfileInit == stats = [v \in Vendors |-> None]

\* AddInventoryModal before it is opened: base_price '', three tiers without
\* a price, loading false.
DefaultTiers ==
    <<[min_quantity |-> 10, price_per_unit |-> 0],
      [min_quantity |-> 25, price_per_unit |-> 0],
      [min_quantity |-> 50, price_per_unit |-> 0]>>

InventoryModalInit ==
    inventoryModal = [modal |-> "none",        \* "add", "edit" or "none"
                      base_price |-> None,     \* formData.base_price, if filled in
                      bulkTiers |-> DefaultTiers,
                      loading |-> FALSE,       \* handleSubmit is waiting for the store
                      toast |-> "none",
                      dropped |-> 0]           \* tiers the last save left out

\* useOrderRealtime before it is mounted: useState([]), useState(0), useState(true).
RealtimeInit ==
    realtime = [mounted |-> FALSE,      \* the effect has run
                subscribed |-> FALSE,   \* the channel is joined at the server
                fetch |-> None,         \* fetchParticipants in flight, if any
                events |-> <<>>,        \* change events on their way to the callback
                loading |-> TRUE,
                totalAmount |-> 0]

ReceiptInit ==
    /\ ProfileInit
    /\ InventoryModalInit
    /\ RealtimeInit
    /\ payment_receipts = <<>>
    /\ vendorHistory = [v \in Vendors |-> <<>>]
    /\ showReceiptModal = [v \in Vendors |-> None]
    /\ receipt = [v \in Vendors |-> None]

MarketInit ==
    /\ orders = <<>>
    /\ order_participants = <<>>
    /\ vendorOrders = [v \in Vendors |-> {}]
    /\ showJoinModal = [v \in Vendors |-> None]
    /\ cart = [v \in Vendors |-> <<>>]
    /\ joinRequest = [v \in Vendors |-> None]
    /\ joinToast = [v \in Vendors |-> "none"]
    /\ supplierOrders = [s \in Sessions |-> <<>>]
    /\ raced = {}
    /\ ReceiptInit

(***************************************************************************)
(* OrderManagement.fetchOrders, as a vendor on the "available" tab: the    *)
(* orders whose status is pending (every vendor is a member of the         *)
(* cluster).                                                               *)
(***************************************************************************)
AvailableOrders(rows) == {o \in DOMAIN rows : rows[o].status = "pending"}

fetchOrdersVendor(v) ==
    /\ vendorOrders' = [vendorOrders EXCEPT ![v] = AvailableOrders(orders)]
    /\ UNCHANGED <<pricingVars, inventoryModal, stats, realtime, storeVars, showJoinModal, cart, joinRequest, joinToast,
                   supplierOrders, raced, receiptVars>>

(***************************************************************************)
(* CreateOrderModal.handleSubmit: inserts the order, then onSuccess        *)
(* refreshes the list.                                                     *)
(***************************************************************************)
NewOrder(v) == [status |-> "pending", total_amount |-> 0, created_by |-> v]

CreateOrder(v) ==
    /\ Len(orders) < MaxOrders
    /\ orders' = Append(orders, NewOrder(v))
    /\ vendorOrders' = [vendorOrders EXCEPT ![v] = AvailableOrders(orders')]
    /\ UNCHANGED <<pricingVars, inventoryModal, stats, realtime, order_participants, showJoinModal, cart, joinRequest,
                   joinToast, supplierOrders, raced, receiptVars>>

(***************************************************************************)
(* JoinOrderModal.                                                         *)
(***************************************************************************)
\* The "Join Order" button of a listed order: setShowJoinModal(order).
openJoinModal(v, order) ==
    /\ showJoinModal[v] = None
    /\ order \in vendorOrders[v]
    /\ showJoinModal' = [showJoinModal EXCEPT ![v] = Some(order)]
    /\ cart' = [cart EXCEPT ![v] = <<>>]
    /\ UNCHANGED <<pricingVars, inventoryModal, stats, realtime, storeVars, vendorOrders, joinRequest, joinToast,
                   supplierOrders, raced, receiptVars>>

InCart(c, inventory_id) == \E i \in 1..Len(c) : c[i].inventory_id = inventory_id

addToCart(v, inventory_id) ==
    /\ showJoinModal[v] # None
    /\ inventory_id \in DOMAIN inventory
    /\ cart' = [cart EXCEPT ![v] =
           IF InCart(cart[v], inventory_id)
           THEN [i \in 1..Len(cart[v]) |->
                    IF cart[v][i].inventory_id = inventory_id
                    THEN [cart[v][i] EXCEPT !.quantity = @ + 1]
                    ELSE cart[v][i]]
           ELSE Append(cart[v], CartItem(inventory_id, inventory[inventory_id],
                                         inventory[inventory_id].minimum_quantity))]
    /\ UNCHANGED <<pricingVars, inventoryModal, stats, realtime, storeVars, vendorOrders, showJoinModal, joinRequest,
                   joinToast, supplierOrders, raced, receiptVars>>

\* updateQuantity(inventory_id, quantity) applied to the cart c.
updateQuantity(c, inventory_id, quantity) ==
    IF quantity <= 0
    THEN SelectSeq(c, LAMBDA item : item.inventory_id # inventory_id)
    ELSE [i \in 1..Len(c) |->
             IF c[i].inventory_id = inventory_id
             THEN [c[i] EXCEPT !.quantity = quantity]
             ELSE c[i]]

\* The minus (delta = -1) and plus (delta = 1) buttons of a cart line:
\* updateQuantity(item.inventory_id, item.quantity + delta).
clickQuantity(v, line, delta) ==
    /\ showJoinModal[v] # None
    /\ line \in 1..Len(cart[v])
    /\ cart' = [cart EXCEPT ![v] =
           updateQuantity(cart[v], cart[v][line].inventory_id,
                          cart[v][line].quantity + delta)]
    /\ UNCHANGED <<pricingVars, inventoryModal, stats, realtime, storeVars, vendorOrders, showJoinModal, joinRequest,
                   joinToast, supplierOrders, raced, receiptVars>>

RECURSIVE SumSeq(_)
SumSeq(s) == IF s = <<>> THEN 0 ELSE Head(s) + SumSeq(Tail(s))

getTotalAmountBase(c) == SumSeq([i \in 1..Len(c) |-> c[i].base_price * c[i].quantity])

getTotalAmount(c) == SumSeq([i \in 1..Len(c) |-> calculateItemPrice(c[i])])

\* unit_price: bulk_tiers?.find(tier => quantity >= tier.min_quantity)?.price_per_unit
\*             || base_price
unit_price(item) ==
    LET found == First(SelectSeq(item.bulk_tiers,
                                 LAMBDA tier : item.quantity >= tier.min_quantity))
    IN  IF found # None /\ found[1].price_per_unit # 0
        THEN found[1].price_per_unit
        ELSE item.base_price

Participation(order, v, c) ==
    [order_id |-> order,
     vendor_id |-> v,
     items |-> [i \in 1..Len(c) |->
                   [inventory_id |-> c[i].inventory_id,
                    quantity |-> c[i].quantity,
                    unit_price |-> unit_price(c[i]),
                    total_price |-> calculateItemPrice(c[i])]],
     total_amount |-> getTotalAmount(c),
     confirmed |-> FALSE]

\* handleSubmit up to the point where the insert has been sent.
handleSubmit(v) ==
    /\ showJoinModal[v] # None
    /\ joinRequest[v] = None
    /\ Len(cart[v]) # 0
    /\ joinRequest' = [joinRequest EXCEPT ![v] =
                          Some(Participation(showJoinModal[v][1], v, cart[v]))]
    /\ joinToast' = [joinToast EXCEPT ![v] = "none"]
    /\ raced' = IF \E w \in Vendors \ {v} :
                      /\ joinRequest[w] # None
                      /\ joinRequest[w][1].order_id = showJoinModal[v][1]
                THEN raced \cup {showJoinModal[v][1]}
                ELSE raced
    /\ UNCHANGED <<pricingVars, inventoryModal, stats, realtime, storeVars, vendorOrders, showJoinModal, cart,
                   supplierOrders, receiptVars>>

(***************************************************************************)
(* The rest of handleSubmit: the store executes the insert (the policy     *)
(* "Vendors can participate in orders" asks only that the caller is a      *)
(* vendor), then the notification is sent.  outcome is "ok", or            *)
(* "insert_error" when the insert fails, or "notify_error" when the        *)
(* notification request is rejected after the insert.                      *)
(***************************************************************************)
JoinOutcomes == {"ok", "insert_error", "notify_error"}

\* postgres_changes on order_participants with the filter order_id=eq.1: a
\* row change is sent to the channel once the channel is joined.
publish(eventType, row) ==
    IF realtime.subscribed /\ row.order_id = 1
    THEN [realtime EXCEPT !.events = Append(@, [eventType |-> eventType, new |-> row])]
    ELSE realtime

participationInsert(v, outcome) ==
    /\ joinRequest[v] # None
    /\ outcome # "insert_error" => Len(order_participants) < MaxParticipants
    /\ order_participants' =
           IF outcome = "insert_error" THEN order_participants
           ELSE Append(order_participants, joinRequest[v][1])
    /\ joinRequest' = [joinRequest EXCEPT ![v] = None]
    /\ joinToast' = [joinToast EXCEPT ![v] = IF outcome = "ok" THEN "success" ELSE "error"]
    /\ IF outcome = "ok"
       THEN /\ showJoinModal' = [showJoinModal EXCEPT ![v] = None]
            /\ cart' = [cart EXCEPT ![v] = <<>>]
            /\ vendorOrders' = [vendorOrders EXCEPT ![v] = AvailableOrders(orders)]
       ELSE UNCHANGED <<showJoinModal, cart, vendorOrders>>
    /\ realtime' = IF outcome = "insert_error" THEN realtime
                   ELSE publish("INSERT", joinRequest[v][1])
    /\ UNCHANGED <<pricingVars, inventoryModal, stats, orders, supplierOrders, raced, receiptVars>>

\* onClose of the modal; the unmounted modal's cart is gone.
closeJoinModal(v) ==
    /\ showJoinModal[v] # None
    /\ joinRequest[v] = None
    /\ showJoinModal' = [showJoinModal EXCEPT ![v] = None]
    /\ cart' = [cart EXCEPT ![v] = <<>>]
    /\ UNCHANGED <<pricingVars, inventoryModal, stats, realtime, storeVars, vendorOrders, joinRequest, joinToast,
                   supplierOrders, raced, receiptVars>>

(***************************************************************************)
(* The supplier's order list and status buttons.                           *)
(***************************************************************************)
\* fetchOrders as a supplier: the orders that are neither delivered nor
\* cancelled; an order the query leaves out is listed here as "hidden".
fetchOrdersSupplier(s) ==
    /\ supplierOrders' = [supplierOrders EXCEPT ![s] =
           [o \in 1..Len(orders) |->
               IF orders[o].status \in {"delivered", "cancelled"}
               THEN "hidden" ELSE orders[o].status]]
    /\ UNCHANGED <<pricingVars, inventoryModal, stats, realtime, storeVars, vendorVars, raced, receiptVars>>

\* The buttons rendered for a listed order: <<listed status, status set on click>>.
StatusButtons ==
    {<<"pending", "confirmed">>, <<"pending", "cancelled">>,
     <<"confirmed", "preparing">>, <<"preparing", "ready">>, <<"ready", "delivered">>}

\* .update({ status, updated_at }).eq('id', orderId): the row is matched by
\* id alone, and the store applies the update the client issues.
UpdateStatus(rows, orderId, status) == [rows EXCEPT ![orderId].status = status]

\* notified: whether the notification request after the update went through;
\* the list is patched only then.
handleUpdateOrderStatus(s, orderId, status, notified) ==
    /\ orderId \in DOMAIN supplierOrders[s]
    /\ <<supplierOrders[s][orderId], status>> \in StatusButtons
    /\ orders' = UpdateStatus(orders, orderId, status)
    /\ supplierOrders' = IF notified
                         THEN [supplierOrders EXCEPT ![s][orderId] = status]
                         ELSE supplierOrders
    /\ UNCHANGED <<pricingVars, inventoryModal, stats, realtime, order_participants, vendorVars, raced, receiptVars>>

(***************************************************************************)
(* The marketplace: vendors create and join orders of a fixed catalog,     *)
(* and the supplier, signed in on two devices, drives the status.          *)
(***************************************************************************)
MarketCatalog ==
    [i1 |-> [base_price |-> 3, minimum_quantity |-> 1,
             bulk_tiers |-> <<[min_quantity |-> 2, price_per_unit |-> 2],
                              [min_quantity |-> 3, price_per_unit |-> 1]>>],
     i2 |-> [base_price |-> 2, minimum_quantity |-> 2, bulk_tiers |-> <<>>]]

CartQty(c) == SumSeq([i \in 1..Len(c) |-> c[i].quantity])

Init ==
    /\ inventory = MarketCatalog
    /\ calls = <<>>
    /\ MarketInit

Next ==
    \/ \E v \in Vendors : CreateOrder(v)
    \/ \E v \in Vendors : fetchOrdersVendor(v)
    \/ \E v \in Vendors, o \in OrderIds : openJoinModal(v, o)
    \/ \E v \in Vendors : closeJoinModal(v)
    \/ \E v \in Vendors : CartQty(cart[v]) < MaxCartQty /\ addToCart(v, "i1")
    \/ \E v \in Vendors : handleSubmit(v)
    \/ \E v \in Vendors, outcome \in JoinOutcomes : participationInsert(v, outcome)
    \/ \E s \in Sessions : fetchOrdersSupplier(s)
    \/ \E s \in Sessions, o \in OrderIds, status \in Statuses, notified \in BOOLEAN :
           handleUpdateOrderStatus(s, o, status, notified)

Spec == Init /\ [][Next]_vars

(***************************************************************************)
(* Price resolution over every catalog row within the bounds.              *)
(***************************************************************************)
InventoryRows ==
    [base_price : 0..MaxPrice, minimum_quantity : {1}, bulk_tiers : TierLists]

\* A catalog row beyond the bounds: base price 100 with the tiers 10 -> 90,
\* 25 -> 80 and 50 -> 70.
TieredItem ==
    [base_price |-> 100, minimum_quantity |-> 1,
     bulk_tiers |-> <<[min_quantity |-> 10, price_per_unit |-> 90],
                      [min_quantity |-> 25, price_per_unit |-> 80],
                      [min_quantity |-> 50, price_per_unit |-> 70]>>]

PricingInit ==
    /\ inventory \in [{"i1"} -> InventoryRows \cup {TieredItem}]
    /\ calls = <<>>
    /\ MarketInit

PricingNext ==
    \/ \E total_quantity \in (-1)..MaxQty : PricingRequest("i1", total_quantity)
    \/ inventory["i1"] = TieredItem /\ PricingRequest("i1", 30)
    \/ \E total_quantity \in 0..1 : PricingRequest("i2", total_quantity)
    \/ \E quantity \in 1..MaxQty : RenderCartLine("i1", quantity)

PricingSpec == PricingInit /\ [][PricingNext]_vars

(***************************************************************************)
(* One vendor filling the cart of the join dialog of a pending order and   *)
(* submitting it.  The order was created by the vendor and is listed on    *)
(* the vendor's "available" tab.                                           *)
(***************************************************************************)
PendingOrderInit ==
    /\ inventory = MarketCatalog
    /\ calls = <<>>
    /\ orders = <<NewOrder("v1")>>
    /\ order_participants = <<>>
    /\ vendorOrders = [v \in Vendors |-> IF v = "v1" THEN AvailableOrders(orders) ELSE {}]
    /\ showJoinModal = [v \in Vendors |-> None]
    /\ cart = [v \in Vendors |-> <<>>]
    /\ joinRequest = [v \in Vendors |-> None]
    /\ joinToast = [v \in Vendors |-> "none"]
    /\ supplierOrders = [s \in Sessions |-> <<>>]
    /\ raced = {}
    /\ ReceiptInit

\* The quantity of the cart line of an item; 0 when the item is not in the cart.
LineQty(c, inventory_id) ==
    SumSeq([i \in 1..Len(c) |->
               IF c[i].inventory_id = inventory_id THEN c[i].quantity ELSE 0])

CartNext ==
    \/ openJoinModal("v1", 1)
    \/ closeJoinModal("v1")
    \/ \E inventory_id \in ItemIds :
           /\ LineQty(cart["v1"], inventory_id) < MaxLineQty
           /\ addToCart("v1", inventory_id)
    \/ \E line \in 1..Cardinality(ItemIds) :
           /\ line \in 1..Len(cart["v1"])
           /\ cart["v1"][line].quantity < MaxLineQty
           /\ clickQuantity("v1", line, 1)
    \/ \E line \in 1..Cardinality(ItemIds) : clickQuantity("v1", line, -1)
    \/ handleSubmit("v1")
    \/ \E outcome \in JoinOutcomes :
           /\ outcome # "insert_error" => Len(order_participants) < MaxJoins
           /\ participationInsert("v1", outcome)

CartSpec == PendingOrderInit /\ [][CartNext]_vars

(***************************************************************************)
(* The same dialog over every catalog row of one item within the bounds.   *)
(***************************************************************************)
TierCartInit ==
    /\ inventory \in [{"i1"} -> InventoryRows]
    /\ calls = <<>>
    /\ orders = <<NewOrder("v1")>>
    /\ order_participants = <<>>
    /\ vendorOrders = [v \in Vendors |-> IF v = "v1" THEN AvailableOrders(orders) ELSE {}]
    /\ showJoinModal = [v \in Vendors |-> None]
    /\ cart = [v \in Vendors |-> <<>>]
    /\ joinRequest = [v \in Vendors |-> None]
    /\ joinToast = [v \in Vendors |-> "none"]
    /\ supplierOrders = [s \in Sessions |-> <<>>]
    /\ raced = {}
    /\ ReceiptInit

TierCartSpec == TierCartInit /\ [][CartNext]_vars

(***************************************************************************)
(* ProfileManagement.fetchUserStats as a vendor.  totalSaved is counted in *)
(* hundredths of a currency unit: total_amount * 0.15 is 15 hundredths per *)
(* unit.                                                                   *)
(***************************************************************************)
totalSaved(rows) == SumSeq([k \in 1..Len(rows) |-> rows[k].total_amount * 15])

fetchUserStats(v) ==
    LET data == SelectSeq(order_participants, LAMBDA row : row.vendor_id = v)
    IN  /\ stats' = [stats EXCEPT ![v] =
               Some([totalOrders |-> Len(data), totalSaved |-> totalSaved(data)])]
        /\ UNCHANGED <<pricingVars, storeVars, vendorVars, supplierOrders, raced,
                       receiptVars, realtime, inventoryModal>>

\* A vendor who joins an order and opens the profile page.
ProfileNext ==
    \/ CartNext
    \/ fetchUserStats("v1")

ProfileSpec == PendingOrderInit /\ [][ProfileNext]_vars

(***************************************************************************)
(* useOrderRealtime(orderId) for order 1.  The effect starts               *)
(* fetchParticipants and asks for the subscription without waiting for     *)
(* either; the select, its response, the join of the channel and the       *)
(* delivery of each event are separate steps.                              *)
(***************************************************************************)
notRealtime ==
    <<pricingVars, stats, storeVars, vendorVars, supplierOrders, raced, receiptVars,
      inventoryModal>>

\* The effect: fetchParticipants() is called and .subscribe() is requested.
useOrderRealtime ==
    /\ ~realtime.mounted
    /\ realtime' = [realtime EXCEPT !.mounted = TRUE,
                                    !.fetch = Some([answered |-> FALSE])]
    /\ UNCHANGED notRealtime

\* The server joins the channel; changes made from now on are sent.
subscribe ==
    /\ realtime.mounted
    /\ ~realtime.subscribed
    /\ realtime' = [realtime EXCEPT !.subscribed = TRUE]
    /\ UNCHANGED notRealtime

\* The store runs the select of fetchParticipants on the rows of the order.
selectParticipants ==
    /\ realtime.fetch # None
    /\ ~realtime.fetch[1].answered
    /\ realtime' = [realtime EXCEPT !.fetch =
           Some([answered |-> TRUE,
                 data |-> SelectSeq(order_participants, LAMBDA row : row.order_id = 1)])]
    /\ UNCHANGED notRealtime

\* The rest of fetchParticipants, once the response is there:
\* setTotalAmount(data.reduce((sum, p) => sum + p.total_amount, 0)).
fetchParticipants ==
    /\ realtime.fetch # None
    /\ realtime.fetch[1].answered
    /\ realtime' = [realtime EXCEPT
           !.fetch = None,
           !.loading = FALSE,
           !.totalAmount = SumSeq([k \in 1..Len(realtime.fetch[1].data) |->
                                      realtime.fetch[1].data[k].total_amount])]
    /\ UNCHANGED notRealtime

\* The callback of the subscription for an INSERT event:
\* setTotalAmount(prev => prev + payload.new.total_amount).
onInsert ==
    /\ realtime.events # <<>>
    /\ Head(realtime.events).eventType = "INSERT"
    /\ realtime' = [realtime EXCEPT
           !.events = Tail(@),
           !.totalAmount = @ + Head(realtime.events).new.total_amount]
    /\ UNCHANGED notRealtime

\* A vendor joins the order while its realtime view is being mounted.
RealtimeNext ==
    \/ CartNext
    \/ useOrderRealtime
    \/ subscribe
    \/ selectParticipants
    \/ fetchParticipants
    \/ onInsert

RealtimeSpec == PendingOrderInit /\ [][RealtimeNext]_vars

(***************************************************************************)
(* The vendor's "history" tab and PaymentReceiptModal.                     *)
(***************************************************************************)
\* fetchOrders as a vendor on the "history" tab: the delivered and cancelled
\* orders; an order the query leaves out is listed here as "hidden".
fetchOrdersHistory(v) ==
    /\ vendorHistory' = [vendorHistory EXCEPT ![v] =
           [o \in 1..Len(orders) |->
               IF orders[o].status \in {"delivered", "cancelled"}
               THEN orders[o].status ELSE "hidden"]]
    /\ UNCHANGED <<pricingVars, inventoryModal, stats, realtime, storeVars, vendorVars, supplierOrders, raced,
                   payment_receipts, showReceiptModal, receipt>>

\* fetchReceipt: .eq('order_id', order.id).maybeSingle(); with several rows
\* the query fails and the receipt stays null.
fetchReceipt(order) ==
    LET found == {k \in 1..Len(payment_receipts) : payment_receipts[k].order_id = order}
    IN  IF Cardinality(found) = 1
        THEN Some([id |-> CHOOSE k \in found : TRUE,
                   payment_status |-> payment_receipts[CHOOSE k \in found : TRUE]
                                          .payment_status])
        ELSE None

\* The "Receipt" button of an order listed as delivered: setShowReceiptModal(order),
\* and the effect that fetches the receipt.
openReceiptModal(v, order) ==
    /\ showReceiptModal[v] = None
    /\ order \in DOMAIN vendorHistory[v]
    /\ vendorHistory[v][order] = "delivered"
    /\ showReceiptModal' = [showReceiptModal EXCEPT ![v] = Some(order)]
    /\ receipt' = [receipt EXCEPT ![v] = fetchReceipt(order)]
    /\ UNCHANGED <<pricingVars, inventoryModal, stats, realtime, storeVars, vendorVars, supplierOrders, raced,
                   payment_receipts, vendorHistory>>

closeReceiptModal(v) ==
    /\ showReceiptModal[v] # None
    /\ showReceiptModal' = [showReceiptModal EXCEPT ![v] = None]
    /\ receipt' = [receipt EXCEPT ![v] = None]
    /\ UNCHANGED <<pricingVars, inventoryModal, stats, realtime, storeVars, vendorVars, supplierOrders, raced,
                   payment_receipts, vendorHistory>>

\* generateReceipt: shown while the modal holds no receipt.
generateReceipt(v) ==
    /\ showReceiptModal[v] # None
    /\ receipt[v] = None
    /\ Len(payment_receipts) < MaxReceipts
    /\ payment_receipts' = Append(payment_receipts,
                                  [order_id |-> showReceiptModal[v][1],
                                   vendor_id |-> v,
                                   payment_status |-> "pending"])
    /\ receipt' = [receipt EXCEPT ![v] =
                      Some([id |-> Len(payment_receipts) + 1, payment_status |-> "pending"])]
    /\ UNCHANGED <<pricingVars, inventoryModal, stats, realtime, storeVars, vendorVars, supplierOrders, raced,
                   vendorHistory, showReceiptModal>>

\* confirmPayment, offered to a vendor while the receipt is pending: marks the
\* receipt paid, then .update({ status: 'delivered' }).eq('id', order.id) on
\* orders, then onSuccess closes the modal and fetches the list again.
confirmPayment(v, confirmationCode) ==
    /\ showReceiptModal[v] # None
    /\ receipt[v] # None
    /\ receipt[v][1].payment_status = "pending"
    /\ confirmationCode # ""
    /\ payment_receipts' = [payment_receipts EXCEPT ![receipt[v][1].id].payment_status = "paid"]
    /\ orders' = UpdateStatus(orders, showReceiptModal[v][1], "delivered")
    /\ showReceiptModal' = [showReceiptModal EXCEPT ![v] = None]
    /\ receipt' = [receipt EXCEPT ![v] = None]
    /\ vendorHistory' = [vendorHistory EXCEPT ![v] =
           [o \in 1..Len(orders') |->
               IF orders'[o].status \in {"delivered", "cancelled"}
               THEN orders'[o].status ELSE "hidden"]]
    /\ UNCHANGED <<pricingVars, inventoryModal, stats, realtime, order_participants, vendorVars, supplierOrders, raced>>

(***************************************************************************)
(* The supplier, signed in on two devices, drives the status of a pending  *)
(* order while a vendor handles its payment receipt.                       *)
(***************************************************************************)
ReceiptNext ==
    \/ \E s \in Sessions : fetchOrdersSupplier(s)
    \/ \E s \in Sessions, o \in OrderIds, status \in Statuses, notified \in BOOLEAN :
           handleUpdateOrderStatus(s, o, status, notified)
    \/ fetchOrdersHistory("v1")
    \/ \E o \in OrderIds : openReceiptModal("v1", o)
    \/ closeReceiptModal("v1")
    \/ generateReceipt("v1")
    \/ \E confirmationCode \in {"", "1234"} : confirmPayment("v1", confirmationCode)

ReceiptSpec == PendingOrderInit /\ [][ReceiptNext]_vars

(***************************************************************************)
(* Inventory management of a supplier with one product, "i1":              *)
(* AddInventoryModal and EditInventoryModal.  In this part a price is      *)
(* counted in quarters of a paisa (0.0025 of a rupee), so that a price     *)
(* below the two decimals of the column price_per_unit differs from zero.  *)
(***************************************************************************)
notInventory == <<calls, storeVars, vendorVars, supplierOrders, raced, receiptVars, stats, realtime>>

\* The column types decimal(10,2) of inventory.base_price and
\* bulk_tiers.price_per_unit: the store rounds a value to whole paise, a half
\* away from zero.
numeric_10_2(p) ==
    IF p < 0 THEN -(((2 - p) \div 4) * 4) ELSE ((p + 2) \div 4) * 4

\* What the inputs of the form can be made to hold: parseInt(value) || 0 in
\* a tier's quantity, parseFloat(value) || 0 in a tier's price (nothing or
\* zero, a quarter of a paisa, one paisa), the text of the base price (empty
\* or one paisa).
TypedQuantities == {0, 1, 2}

TypedPrices == {0, 1, 4}

TypedBasePrices == {None, Some(4)}

\* What the ai-categorizer function answers in bulk_tiers.
Suggestions ==
    SeqsUpTo([min_quantity : {1, 2}, discount_percentage : {0, 75, 100}], MaxTiers) \ {<<>>}

\* parseFloat(formData.base_price) || 0
basePrice(base_price) == IF base_price = None THEN 0 ELSE base_price[1]

suggestedTiers(result, base_price) ==
    [k \in 1..Len(result) |->
        [min_quantity |-> result[k].min_quantity,
         price_per_unit |->
             (basePrice(base_price) * (100 - result[k].discount_percentage)) \div 100]]

\* A value of an input with step="0.01" and min="0".
stepMatches(p) == p >= 0 /\ p % 4 = 0

\* The browser's validation of the form, without which onSubmit does not
\* fire: the base price is required, with min="0" and step="0.01"; a tier's
\* quantity has min="1", a tier's price min="0" and step="0.01".
formValid(form) ==
    /\ form.base_price # None
    /\ stepMatches(form.base_price[1])
    /\ \A k \in 1..Len(form.bulkTiers) :
           /\ form.bulkTiers[k].min_quantity >= 1
           /\ stepMatches(form.bulkTiers[k].price_per_unit)

validTiersQuantityOnly(bulkTiers) ==
    SelectSeq(bulkTiers, LAMBDA tier : tier.min_quantity > 0)

validTiers(bulkTiers) ==
    SelectSeq(bulkTiers, LAMBDA tier : tier.min_quantity > 0 /\ tier.price_per_unit > 0)

\* The rows the insert into bulk_tiers leaves in the table.
insertTiers(rows) ==
    [k \in 1..Len(rows) |->
        [min_quantity |-> rows[k].min_quantity,
         price_per_unit |-> numeric_10_2(rows[k].price_per_unit)]]

\* The "Add Product" button: setShowAddModal(true).  The modal keeps its form
\* while it is closed.
openAddModal ==
    /\ inventoryModal.modal = "none"
    /\ "i1" \notin DOMAIN inventory
    /\ inventoryModal' = [inventoryModal EXCEPT !.modal = "add", !.toast = "none", !.dropped = 0]
    /\ UNCHANGED <<inventory, notInventory>>

\* The edit button of a listed product: setEditingItem(item) mounts the
\* modal, whose effect copies the item into the form.
setEditingItem(i) ==
    /\ inventoryModal.modal = "none"
    /\ i \in DOMAIN inventory
    /\ inventoryModal' = [inventoryModal EXCEPT !.modal = "edit",
                                                !.base_price = Some(inventory[i].base_price),
                                                !.bulkTiers = inventory[i].bulk_tiers,
                                                !.toast = "none",
                                                !.dropped = 0]
    /\ UNCHANGED <<inventory, notInventory>>

\* onClose: the add modal is hidden with its form kept, the edit modal is
\* unmounted.
onClose ==
    /\ inventoryModal.modal # "none"
    /\ ~inventoryModal.loading
    /\ inventoryModal' =
           IF inventoryModal.modal = "add"
           THEN [inventoryModal EXCEPT !.modal = "none"]
           ELSE [inventoryModal EXCEPT !.modal = "none", !.base_price = None,
                                       !.bulkTiers = DefaultTiers]
    /\ UNCHANGED <<inventory, notInventory>>

\* The base price input: setFormData({...formData, base_price: e.target.value}).
setBasePrice(value) ==
    /\ inventoryModal.modal # "none"
    /\ ~inventoryModal.loading
    /\ inventoryModal' = [inventoryModal EXCEPT !.base_price = value]
    /\ UNCHANGED <<inventory, notInventory>>

updateBulkTier(index, field, value) ==
    /\ inventoryModal.modal # "none"
    /\ ~inventoryModal.loading
    /\ index \in 1..Len(inventoryModal.bulkTiers)
    /\ inventoryModal' = [inventoryModal EXCEPT !.bulkTiers[index][field] = value]
    /\ UNCHANGED <<inventory, notInventory>>

addBulkTier ==
    /\ inventoryModal.modal = "edit"
    /\ ~inventoryModal.loading
    /\ Len(inventoryModal.bulkTiers) < MaxTiers
    /\ inventoryModal' = [inventoryModal EXCEPT !.bulkTiers =
                              Append(@, [min_quantity |-> 0, price_per_unit |-> 0])]
    /\ UNCHANGED <<inventory, notInventory>>

removeBulkTier(index) ==
    /\ inventoryModal.modal = "edit"
    /\ ~inventoryModal.loading
    /\ index \in 1..Len(inventoryModal.bulkTiers)
    /\ inventoryModal' = [inventoryModal EXCEPT !.bulkTiers =
                              [k \in 1..(Len(@) - 1) |-> IF k < index THEN @[k] ELSE @[k + 1]]]
    /\ UNCHANGED <<inventory, notInventory>>

\* The AI button of the add modal, answered with a non-empty list of tiers.
handleAICategorization(result) ==
    /\ inventoryModal.modal = "add"
    /\ ~inventoryModal.loading
    /\ inventoryModal' = [inventoryModal EXCEPT !.bulkTiers =
                              suggestedTiers(result, inventoryModal.base_price)]
    /\ UNCHANGED <<inventory, notInventory>>

\* The submit button of either modal, up to the first request:
\* setLoading(true).
handleSubmitProduct ==
    /\ inventoryModal.modal # "none"
    /\ ~inventoryModal.loading
    /\ formValid(inventoryModal)
    /\ inventoryModal.modal = "add" => "i1" \notin DOMAIN inventory
    /\ inventoryModal' = [inventoryModal EXCEPT !.loading = TRUE]
    /\ UNCHANGED <<inventory, notInventory>>

AddOutcomes == {"inventory_error", "tiers_error", "ok"}

\* The rest of AddInventoryModal.handleSubmit: the insert of the product,
\* then the insert of its valid tiers, each of which the store may refuse.
insertProduct(outcome) ==
    LET valid == validTiers(inventoryModal.bulkTiers)
        row == [base_price |-> numeric_10_2(inventoryModal.base_price[1]),
                minimum_quantity |-> 1,
                bulk_tiers |-> IF outcome = "ok" THEN insertTiers(valid) ELSE <<>>]
    IN  /\ inventoryModal.modal = "add"
        /\ inventoryModal.loading
        /\ outcome = "tiers_error" => valid # <<>>
        /\ inventory' =
               IF outcome = "inventory_error" THEN inventory
               ELSE [i \in DOMAIN inventory \cup {"i1"} |->
                        IF i = "i1" THEN row ELSE inventory[i]]
        /\ inventoryModal' =
               IF outcome = "ok"
               THEN [modal |-> "none", base_price |-> None, bulkTiers |-> DefaultTiers,
                     loading |-> FALSE, toast |-> "success",
                     dropped |-> Len(inventoryModal.bulkTiers) - Len(valid)]
               ELSE [inventoryModal EXCEPT !.loading = FALSE, !.toast = "error"]
        /\ UNCHANGED notInventory

EditOutcomes == {"inventory_error", "delete_error", "tiers_error", "ok"}

\* The rest of EditInventoryModal.handleSubmit: the update of the product,
\* the delete of its tiers and the insert of the valid tiers of the form,
\* three requests each of which the store may refuse.
updateProduct(i, outcome) ==
    LET valid == validTiers(inventoryModal.bulkTiers)
        bulk_tiers == IF outcome = "delete_error" THEN inventory[i].bulk_tiers
                      ELSE IF outcome = "tiers_error" THEN <<>>
                      ELSE insertTiers(valid)
    IN  /\ inventoryModal.modal = "edit"
        /\ inventoryModal.loading
        /\ outcome = "tiers_error" => valid # <<>>
        /\ inventory' =
               IF outcome = "inventory_error" THEN inventory
               ELSE [inventory EXCEPT ![i] =
                        [@ EXCEPT !.base_price = numeric_10_2(inventoryModal.base_price[1]),
                                  !.bulk_tiers = bulk_tiers]]
        /\ inventoryModal' =
               IF outcome = "ok"
               THEN [modal |-> "none", base_price |-> None, bulkTiers |-> DefaultTiers,
                     loading |-> FALSE, toast |-> "success",
                     dropped |-> Len(inventoryModal.bulkTiers) - Len(valid)]
               ELSE [inventoryModal EXCEPT !.loading = FALSE, !.toast = "error"]
        /\ UNCHANGED notInventory

\* A supplier without a product yet.
InventoryInit ==
    /\ inventory = <<>>
    /\ calls = <<>>
    /\ MarketInit

InventoryNext ==
    \/ openAddModal
    \/ setEditingItem("i1")
    \/ onClose
    \/ \E value \in TypedBasePrices : setBasePrice(value)
    \/ \E index \in 1..Len(inventoryModal.bulkTiers), value \in TypedQuantities :
           updateBulkTier(index, "min_quantity", value)
    \/ \E index \in 1..Len(inventoryModal.bulkTiers), value \in TypedPrices :
           updateBulkTier(index, "price_per_unit", value)
    \/ addBulkTier
    \/ \E index \in 1..Len(inventoryModal.bulkTiers) : removeBulkTier(index)
    \/ \E result \in Suggestions : handleAICategorization(result)
    \/ handleSubmitProduct
    \/ \E outcome \in AddOutcomes : insertProduct(outcome)
    \/ \E outcome \in EditOutcomes : updateProduct("i1", outcome)

InventorySpec == InventoryInit /\ [][InventoryNext]_vars

(***************************************************************************)
(* What the claims are measured against.                                   *)
(***************************************************************************)
\* The positions of the tiers a quantity qualifies for.
Qualifying(tiers, q) == {i \in 1..Len(tiers) : tiers[i].min_quantity <= q}

\* The qualifying tiers whose min_quantity is the largest.
Deepest(tiers, q) ==
    {tiers[i] : i \in {k \in Qualifying(tiers, q) :
                          \A j \in Qualifying(tiers, q) :
                              tiers[j].min_quantity <= tiers[k].min_quantity}}

CatalogTiers == inventory["i1"].bulk_tiers

BasePrice == inventory["i1"].base_price

\* A price resolution that returned a price: a 200 response, or a cart line.
Priced(c) ==
    /\ c.quantity >= 1
    /\ c.site = "pricing-calculator" => c.result.status = 200

\* Whether the call resolved the unit price p.
ResolvedPrice(c, p) ==
    IF c.site = "pricing-calculator"
    THEN c.result.discounted_price = p
    ELSE c.result = p * c.quantity

Recent == {calls[k] : k \in 1..Len(calls)}

\* C2: when at least one tier has min_quantity <= quantity, the resolved unit
\* price is the price of a tier whose min_quantity is the largest among the
\* qualifying tiers (both at the endpoint and in the cart).
C2_DeepestTierPrice ==
    \A c \in Recent :
        (Priced(c) /\ Qualifying(CatalogTiers, c.quantity) # {})
            => \E t \in Deepest(CatalogTiers, c.quantity) : ResolvedPrice(c, t.price_per_unit)

\* C2 witness: a quantity equal to the deeper of two thresholds resolves to
\* the deeper tier's price, which differs from the other tier's and the base price.
C2_Witness ==
    \E c \in Recent :
        /\ Priced(c)
        /\ Len(CatalogTiers) = 2
        /\ CatalogTiers[1].min_quantity < CatalogTiers[2].min_quantity
        /\ c.quantity = CatalogTiers[2].min_quantity
        /\ CatalogTiers[1].price_per_unit # CatalogTiers[2].price_per_unit
        /\ BasePrice # CatalogTiers[2].price_per_unit
        /\ ResolvedPrice(c, CatalogTiers[2].price_per_unit)

\* C3: when several qualifying tiers share the largest qualifying
\* min_quantity, the resolved unit price is the lowest price among them.
C3_TieLowestPrice ==
    \A c \in Recent :
        (Priced(c) /\ Qualifying(CatalogTiers, c.quantity) # {})
            => \E t \in Deepest(CatalogTiers, c.quantity) :
                   /\ ResolvedPrice(c, t.price_per_unit)
                   /\ \A u \in Deepest(CatalogTiers, c.quantity) :
                          t.price_per_unit <= u.price_per_unit

\* C4: with no tiers, or a quantity below every threshold, the resolved unit
\* price is the base price and the response names no applied tier.
C4_BasePriceFallback ==
    \A c \in Recent :
        (Priced(c) /\ Qualifying(CatalogTiers, c.quantity) = {})
            => /\ ResolvedPrice(c, BasePrice)
               /\ c.site = "pricing-calculator" => c.result.applicable_tier = None

\* C4 witness: a request below the only thresholds of an item whose tier
\* prices differ from its base price is answered with the base price.
C4_Witness ==
    \E c \in Recent :
        /\ Priced(c)
        /\ c.site = "pricing-calculator"
        /\ Len(CatalogTiers) > 0
        /\ \A i \in 1..Len(CatalogTiers) :
               /\ CatalogTiers[i].min_quantity > c.quantity
               /\ CatalogTiers[i].price_per_unit # BasePrice
        /\ c.result.discounted_price = BasePrice
        /\ c.result.applicable_tier = None

\* C8: with a base price of 0 the request succeeds and the savings
\* percentage is exactly 0, for every quantity >= 1 and every tier set.
C8_ZeroBasePercentage ==
    \A c \in Recent :
        (c.site = "pricing-calculator" /\ c.quantity >= 1 /\ BasePrice = 0
         /\ c.result.status = 200)
            => c.result.savings_percentage = Some(0)

\* C9: when every tier's price is at most the base price, the savings amount
\* of a priced request is not negative.
C9_SavingsNonNegative ==
    \A c \in Recent :
        (/\ Priced(c)
         /\ c.site = "pricing-calculator"
         /\ \A i \in 1..Len(CatalogTiers) : CatalogTiers[i].price_per_unit <= BasePrice)
            => c.result.savings_amount >= 0

\* C9 witness: a tier below the base price is applied and the savings are positive.
C9_Witness ==
    \E c \in Recent :
        /\ Priced(c)
        /\ c.site = "pricing-calculator"
        /\ \A i \in 1..Len(CatalogTiers) : CatalogTiers[i].price_per_unit <= BasePrice
        /\ c.selected # None
        /\ c.result.savings_amount > 0

\* Two resolutions by the same code, the later one for the larger quantity,
\* each quantity qualifying for at least one tier.
Ascending(c1, c2) ==
    /\ Priced(c1) /\ Priced(c2)
    /\ c1.site = c2.site
    /\ c1.quantity < c2.quantity
    /\ Qualifying(CatalogTiers, c1.quantity) # {}

\* C10: for q1 < q2 that both qualify for a tier, the tier selected for q2
\* has a min_quantity at least that of the tier selected for q1.
C10_MonotonicQualification ==
    Len(calls) = 2 /\ Ascending(calls[2], calls[1])
        => /\ calls[1].selected # None
           /\ calls[2].selected # None
           /\ calls[1].selected[1].min_quantity >= calls[2].selected[1].min_quantity

\* C10 witness: the larger quantity reached a strictly deeper tier.
C10_Witness ==
    /\ Len(calls) = 2
    /\ Ascending(calls[2], calls[1])
    /\ calls[1].selected # None
    /\ calls[2].selected # None
    /\ calls[1].selected[1].min_quantity > calls[2].selected[1].min_quantity

\* C12: the total of a priced line is the resolved unit price times the
\* quantity, and the savings amount is base price times quantity minus that
\* total, at the endpoint; a cart line's total is the price of its selected
\* tier, or the base price, times the quantity.
C12_LineTotals ==
    \A c \in Recent :
        Priced(c)
            => IF c.site = "pricing-calculator"
               THEN /\ c.result.total_amount = c.result.discounted_price * c.quantity
                    /\ c.result.savings_amount
                           = c.result.base_price * c.quantity - c.result.total_amount
                    /\ c.result.base_price = BasePrice
               ELSE c.result = c.quantity * (IF c.selected # None
                                             THEN c.selected[1].price_per_unit
                                             ELSE BasePrice)

\* C12 witness: base price 100, tiers 10 -> 90, 25 -> 80, 50 -> 70, quantity
\* 30: the tier 25 -> 80 is applied, total 2400, savings 600, 20.0 percent.
C12_Witness ==
    \E c \in Recent :
        /\ c.site = "pricing-calculator"
        /\ inventory["i1"] = TieredItem
        /\ c.quantity = 30
        /\ c.result.applicable_tier = Some([min_quantity |-> 25, price_per_unit |-> 80])
        /\ c.result.total_amount = 2400
        /\ c.result.base_price * c.quantity = 3000
        /\ c.result.savings_amount = 600
        /\ c.result.savings_percentage = Some(200)

(***************************************************************************)
(* Claims about the marketplace.                                           *)
(***************************************************************************)
ParticipationsOf(o) ==
    SelectSeq(order_participants, LAMBDA row : row.order_id = o)

ParticipationTotal(o) ==
    SumSeq([i \in 1..Len(ParticipationsOf(o)) |-> ParticipationsOf(o)[i].total_amount])

\* C1: the stored total_amount of every order equals the sum of the
\* total_amount of the participations attached to it.
C1_OrderTotalIsSum ==
    \A o \in DOMAIN orders : orders[o].total_amount = ParticipationTotal(o)

\* C5: once two joins that overlapped on an order have both completed, the
\* order has both participations and its total_amount includes both totals.
C5_NoLostJoin ==
    \A o \in raced :
        (\A v \in Vendors : joinRequest[v] = None /\ joinToast[v] = "success")
            => /\ \A v \in Vendors :
                      \E i \in 1..Len(order_participants) :
                          /\ order_participants[i].order_id = o
                          /\ order_participants[i].vendor_id = v
               /\ orders[o].total_amount = ParticipationTotal(o)

StatusEdges ==
    {<<"pending", "confirmed">>, <<"confirmed", "preparing">>,
     <<"preparing", "ready">>, <<"ready", "delivered">>}
        \cup {<<st, "cancelled">> : st \in {"pending", "confirmed", "preparing", "ready"}}

C13_ParticipationTotalIsSum ==
    \A k \in 1..Len(order_participants) :
        order_participants[k].total_amount
            = SumSeq([i \in 1..Len(order_participants[k].items) |->
                         order_participants[k].items[i].total_price])

\* C13 witness: a stored participation of two lines, one of them priced by a
\* bulk tier after its quantity was raised above the quantity it was added with.
C13_Witness ==
    \E k \in 1..Len(order_participants) :
        /\ Len(order_participants[k].items) = 2
        /\ \E i \in 1..2 :
               /\ order_participants[k].items[i].inventory_id = "i1"
               /\ order_participants[k].items[i].quantity = 2
               /\ order_participants[k].items[i].total_price = 4
        /\ order_participants[k].total_amount = 8

\* C14: a vendor has at most one participation per order; a cart submitted
\* again for the same order replaces the earlier participation.
C14_OneParticipationPerVendor ==
    \A i, j \in 1..Len(order_participants) :
        (/\ order_participants[i].order_id = order_participants[j].order_id
         /\ order_participants[i].vendor_id = order_participants[j].vendor_id)
            => i = j

\* C15: a pricing request with a quantity below 1 is answered with an
\* error, never with a successful pricing result.
C15_InvalidQuantityRejected ==
    \A c \in Recent :
        (c.site = "pricing-calculator" /\ c.quantity < 1) => c.result.status # 200

\* A request to the endpoint for an item id that is not in the catalog.
UnknownItem(c) ==
    c.site = "pricing-calculator" /\ c.inventory_id \notin DOMAIN inventory

C17_CancelAvailable ==
    \A s \in Sessions :
        \A o \in DOMAIN supplierOrders[s] :
            supplierOrders[s][o] \in {"pending", "confirmed", "preparing", "ready"}
                => ENABLED handleUpdateOrderStatus(s, o, "cancelled", TRUE)

DeepestAboveBase(c) ==
    /\ Priced(c)
    /\ Deepest(CatalogTiers, c.quantity) # {}
    /\ \A t \in Deepest(CatalogTiers, c.quantity) : t.price_per_unit > BasePrice

\* C19: when the deepest qualifying tier is priced above the base price, the
\* resolved unit price is still that tier's price, and the endpoint reports
\* the negative savings amount (base price minus tier price, times quantity).
C19_TierAboveBaseApplied ==
    \A c \in Recent :
        DeepestAboveBase(c)
            => \E t \in Deepest(CatalogTiers, c.quantity) :
                   /\ ResolvedPrice(c, t.price_per_unit)
                   /\ c.site = "pricing-calculator"
                          => /\ c.result.savings_amount
                                    = (BasePrice - t.price_per_unit) * c.quantity
                             /\ c.result.savings_amount < 0

\* C19 witness: the endpoint applied a tier priced above the base price,
\* although a shallower qualifying tier is not priced above it.
C19_Witness ==
    \E c \in Recent :
        /\ DeepestAboveBase(c)
        /\ c.site = "pricing-calculator"
        /\ \E i \in Qualifying(CatalogTiers, c.quantity) :
               CatalogTiers[i].price_per_unit <= BasePrice
        /\ c.result.discounted_price > BasePrice
        /\ c.result.savings_amount < 0

\* C20: no line of a cart and no line of a stored participation has a
\* quantity below the minimum_quantity of its item.
C20_QuantityAtLeastMinimum ==
    /\ \A v \in Vendors :
           \A i \in 1..Len(cart[v]) :
               cart[v][i].quantity >= inventory[cart[v][i].inventory_id].minimum_quantity
    /\ \A k \in 1..Len(order_participants) :
           \A i \in 1..Len(order_participants[k].items) :
               order_participants[k].items[i].quantity
                   >= inventory[order_participants[k].items[i].inventory_id].minimum_quantity

\* C22: a pricing request, answered with a result or with an error, leaves
\* the inventory with its tiers, the orders, the participations and the
\* receipts as they were.
C22_PricingRequestReadsOnly ==
    [][(calls' # calls /\ calls'[1].site = "pricing-calculator")
          => UNCHANGED <<inventory, orders, order_participants, payment_receipts>>]_vars

\* C22 witness: a request answered with a result that applied a tier priced
\* unlike the base price, and a request answered with an error, have both
\* been served.
C22_Witness ==
    /\ Len(calls) = 2
    /\ calls[1].site = "pricing-calculator" /\ calls[1].result.status = 400
    /\ calls[2].site = "pricing-calculator" /\ calls[2].result.status = 200
    /\ calls[2].selected # None
    /\ calls[2].result.discounted_price # BasePrice

\* The catalog row of i1 with its tiers stored in every possible order.
Reordered ==
    {[inventory["i1"] EXCEPT !.bulk_tiers = [i \in 1..Len(CatalogTiers) |-> CatalogTiers[f[i]]]] :
        f \in Permutations(1..Len(CatalogTiers))}

\* C23: the resolved unit price is the same for every order in which the
\* tiers of the item can be stored, at the endpoint and in the cart.
C23_TierOrderIrrelevant ==
    \A c \in Recent :
        Priced(c)
            => \A item \in Reordered :
                   IF c.site = "pricing-calculator"
                   THEN c.result.discounted_price = bestPrice(item, c.quantity)
                   ELSE c.result = calculateItemPrice(CartItem("i1", item, c.quantity))

\* C24: a tier the endpoint reports as applied is a deepest qualifying tier
\* and carries the returned unit price.
C24_AppliedTierIsSelected ==
    \A c \in Recent :
        (/\ Priced(c)
         /\ c.site = "pricing-calculator"
         /\ c.result.applicable_tier # None)
            => /\ c.result.applicable_tier[1] \in Deepest(CatalogTiers, c.quantity)
               /\ c.result.applicable_tier[1].price_per_unit = c.result.discounted_price

\* The two most recent resolutions priced the same item for the same
\* quantity >= 1, one at the endpoint and one in the cart.
BothSites ==
    /\ Len(calls) = 2
    /\ Priced(calls[1]) /\ Priced(calls[2])
    /\ calls[1].site = "calculateItemPrice"
    /\ calls[2].site = "pricing-calculator"
    /\ calls[1].inventory_id = calls[2].inventory_id
    /\ calls[1].quantity = calls[2].quantity

\* C26: for the same item, tier list and quantity >= 1, the line total of
\* the cart equals the total amount of the endpoint.
C26_CartMatchesEndpoint ==
    BothSites => calls[1].result = calls[2].result.total_amount

\* C26 witness: both sites priced a quantity that qualifies for two tiers of
\* different prices, stored with the shallower tier first.
C26_Witness ==
    /\ BothSites
    /\ Len(CatalogTiers) = 2
    /\ CatalogTiers[1].min_quantity < CatalogTiers[2].min_quantity
    /\ CatalogTiers[2].min_quantity <= calls[1].quantity
    /\ CatalogTiers[1].price_per_unit # CatalogTiers[2].price_per_unit
    /\ calls[1].result = CatalogTiers[2].price_per_unit * calls[1].quantity

\* C25: for every line stored in a participation, the stored unit_price
\* times the stored quantity equals the stored total_price.
C25_UnitPriceMatchesTotal ==
    \A k \in 1..Len(order_participants) :
        \A i \in 1..Len(order_participants[k].items) :
            order_participants[k].items[i].unit_price * order_participants[k].items[i].quantity
                = order_participants[k].items[i].total_price

\* The savings of the stored lines of a participation: base price times
\* quantity minus the stored total_price, summed over its lines.
LineSavings(row) ==
    SumSeq([i \in 1..Len(row.items) |->
               inventory[row.items[i].inventory_id].base_price * row.items[i].quantity
                   - row.items[i].total_price])

\* C21: the savings shown to a vendor equal the sum of the line savings of
\* the vendor's participations (as long as the figures shown cover all of them).
C21_VendorSavingsFromLines ==
    \A v \in Vendors :
        LET mine == SelectSeq(order_participants, LAMBDA row : row.vendor_id = v)
        IN  (stats[v] # None /\ stats[v][1].totalOrders = Len(mine))
                => stats[v][1].totalSaved
                       = 100 * SumSeq([k \in 1..Len(mine) |-> LineSavings(mine[k])])

\* The realtime view has nothing left to wait for: the channel is joined,
\* the fetch has returned, every event has been delivered and no insert is
\* in flight.
RealtimeSettled ==
    /\ realtime.mounted
    /\ realtime.subscribed
    /\ realtime.fetch = None
    /\ realtime.events = <<>>
    /\ \A v \in Vendors : joinRequest[v] = None

\* C27: once the realtime view has settled, its totalAmount equals the sum
\* of total_amount over the participations stored for the order.
C27_RealtimeTotalIsSum ==
    RealtimeSettled => realtime.totalAmount = ParticipationTotal(1)

\* C29: a join that is reported to the vendor as failed stores no
\* participation.
C29_FailedJoinStoresNothing ==
    [][\A v \in Vendors :
          (joinRequest[v] # None /\ joinRequest'[v] = None /\ joinToast'[v] = "error")
              => order_participants' = order_participants]_vars

\* C28: every tier stored with a product has a minimum quantity of at least
\* one and a price above zero.
C28_StoredTiersPositive ==
    \A i \in DOMAIN inventory :
        \A k \in 1..Len(inventory[i].bulk_tiers) :
            /\ inventory[i].bulk_tiers[k].min_quantity >= 1
            /\ inventory[i].bulk_tiers[k].price_per_unit > 0

\* A product was saved with some of the form's tiers stored and others, which
\* had no price, left out.
C28_Witness ==
    /\ "i1" \in DOMAIN inventory
    /\ inventoryModal.toast = "success"
    /\ inventoryModal.dropped > 0
    /\ inventory["i1"].bulk_tiers # <<>>

\* C30: an edit that is reported as failed leaves the tiers stored with the
\* product as they were when it was submitted.
C30_FailedEditKeepsTiers ==
    [][(/\ inventoryModal.modal = "edit"
        /\ inventoryModal.loading
        /\ ~inventoryModal'.loading
        /\ inventoryModal'.toast = "error")
           => inventory'["i1"].bulk_tiers = inventory["i1"].bulk_tiers]_vars

====
